---- MODULE Spec2Model ----
(***************************************************************************)
(* A model of server/src/gcp_logging.py: the JSONFormatter, the GCPLogger  *)
(* (a gunicorn.glogging.Logger subclass) and configure_app_logging.        *)
(*                                                                         *)
(* Strings are modelled by what produced them, so that an encoding is      *)
(* never the identity:                                                     *)
(*   [kind |-> "text", v |-> x]   a plain string with content x            *)
(*   [kind |-> "json", v |-> o]   json.dumps(o), the JSON text of object o *)
(* A JSON object is a function from its keys to its values.                *)
(***************************************************************************)
EXTENDS Integers, Sequences, FiniteSets, TLC

VARIABLES
    record,           \* the logging.LogRecord handed to JSONFormatter.format
    out,              \* <<what JSONFormatter.format returned for it>>, or <<>>
    cfg,              \* the gunicorn Config the GCPLogger was built with
    error_handlers,   \* logging.getLogger("gunicorn.error").handlers
    access_handlers,  \* logging.getLogger("gunicorn.access").handlers
    root_handlers,    \* logging.getLogger().handlers
    root_level,       \* logging.getLogger().level
    sinks,            \* what was written to each stream, file or syslog
    clock,            \* datetime.now(timezone.utc), advanced by every call
    setups,           \* number of GCPLogger.setup / configure_app_logging calls
    calls,            \* history of the logging calls made, oldest first
    pc,               \* per thread: position inside configure_app_logging
    snap,             \* per thread: the copy root_logger.handlers[:]
    nextId            \* identity of the next handler object created

vars == <<record, out, cfg, error_handlers, access_handlers, root_handlers,
          root_level, sinks, clock, setups, calls, pc, snap, nextId>>

(***************************************************************************)
(* Bounds of the model.                                                    *)
(***************************************************************************)
MaxLevel == 52
MaxSetups == 3
MaxCalls == 2
MaxPre == 2
MaxConfigures == 2

(***************************************************************************)
(* logging's level numbers, as named in SEVERITY_MAP.                      *)
(***************************************************************************)
DEBUG == 10
INFO == 20
WARNING == 30
ERROR == 40
CRITICAL == 50

None == "None"

Text(x) == [kind |-> "text", v |-> x]

\* json.dumps(obj): the JSON text of obj.
Dumps(obj) == [kind |-> "json", v |-> obj]

\* json.loads(s), for s a JSON text.
Loads(s) == s.v

IsJson(s) == s.kind = "json"

(***************************************************************************)
(* JSONFormatter                                                           *)
(***************************************************************************)
\* The mutant that spells WARNING as syslog does.
SEVERITY_MAP_Warn ==
    [l \in {DEBUG, INFO, WARNING, ERROR, CRITICAL} |->
        CASE l = DEBUG    -> "DEBUG"
          [] l = INFO     -> "INFO"
          [] l = WARNING  -> "WARN"
          [] l = ERROR    -> "ERROR"
          [] l = CRITICAL -> "CRITICAL"]

SEVERITY_MAP ==
    [l \in {DEBUG, INFO, WARNING, ERROR, CRITICAL} |->
        CASE l = DEBUG    -> "DEBUG"
          [] l = INFO     -> "INFO"
          [] l = WARNING  -> "WARNING"
          [] l = ERROR    -> "ERROR"
          [] l = CRITICAL -> "CRITICAL"]

\* SEVERITY_MAP.get(levelno, 'INFO')
Severity(levelno) ==
    IF levelno \in DOMAIN SEVERITY_MAP THEN SEVERITY_MAP[levelno] ELSE "INFO"

\* The values record.exc_info takes: None and False are falsy; a 3-tuple is
\* truthy, also the (None, None, None) that exc_info=True gives outside an
\* except block.
ExcInfos == {"None", "False", "raised", "none3"}

Truthy(exc_info) == exc_info \in {"raised", "none3"}

\* The mutant "if record.exc_info is not None".
HasExceptionInfo_IsNotNone(r) == r.exc_info # "None"

\* "if record.exc_info:"
HasExceptionInfo(r) == Truthy(r.exc_info)

\* ''.join(traceback.format_exception(*record.exc_info))
FormatException(exc_info) == Text(<<"traceback", exc_info>>)

\* JSONFormatter.format(record) at time now.
format(r, now) ==
    LET log_entry == [k \in {"severity", "message", "timestamp"} |->
                        CASE k = "severity"  -> Severity(r.levelno)
                          [] k = "message"   -> r.msg
                          [] k = "timestamp" -> now]
        with_exc  == [k \in DOMAIN log_entry \cup {"exception"} |->
                        IF k = "exception" THEN FormatException(r.exc_info)
                                           ELSE log_entry[k]]
    IN  Dumps(IF HasExceptionInfo(r) THEN with_exc ELSE log_entry)

(***************************************************************************)
(* logging: handlers, loggers and what they write.                         *)
(*                                                                         *)
(* A handler is [stream, fmt, gunicorn, level, id]: where it writes, its   *)
(* formatter, whether gunicorn tagged it (h._gunicorn = True), its level   *)
(* and its object identity.  A written line is [src, id, text]: the name   *)
(* of the logger and the identity of the record it renders, and the text.  *)
(***************************************************************************)
NOTSET == 0

Streams == {"stdout", "stderr", "error.log", "access.log", "syslog"}

Handler(stream, fmt, tagged, level, id) ==
    [stream |-> stream, fmt |-> fmt, gunicorn |-> tagged, level |-> level,
     id |-> id]

LogRecord(name, levelno, msg, exc_info, id) ==
    [name |-> name, levelno |-> levelno, msg |-> msg, exc_info |-> exc_info,
     id |-> id]

\* logging.Formatter(fmt).format(record) for the formats gunicorn installs:
\* access_fmt is "%(message)s", the message itself; error_fmt and syslog_fmt
\* wrap it.
PlainFormat(fmt, r, now) ==
    IF fmt = "access_fmt" /\ ~Truthy(r.exc_info)
    THEN r.msg
    ELSE Text(<<fmt, now, r.levelno, r.msg, r.exc_info>>)

\* Handler.format(record)
HandlerFormat(h, r, now) ==
    IF h.fmt = "json" THEN format(r, now) ELSE PlainFormat(h.fmt, r, now)

\* StreamHandler.emit: one line appended to the handler's stream.
Emit(s, h, r, now) ==
    [s EXCEPT ![h.stream] =
        Append(@, [src |-> r.name, id |-> r.id, text |-> HandlerFormat(h, r, now)])]

\* logging.lastResort: a stderr handler at WARNING, used by callHandlers
\* when the logger has no handler at all.
LastResort == Handler("stderr", "access_fmt", FALSE, WARNING, 0)

RECURSIVE EmitAll(_, _, _, _)
EmitAll(s, hs, r, now) ==
    IF hs = <<>> THEN s
    ELSE EmitAll(IF r.levelno >= Head(hs).level THEN Emit(s, Head(hs), r, now)
                                                ELSE s,
                 Tail(hs), r, now)

\* Logger.callHandlers(record) of a logger that does not propagate, or of
\* the root logger.
CallHandlers(s, hs, r, now) ==
    IF hs = <<>>
    THEN IF r.levelno >= LastResort.level THEN Emit(s, LastResort, r, now) ELSE s
    ELSE EmitAll(s, hs, r, now)

\* Logger.log(levelno, msg) of a logger at level `level`.
LoggerLog(s, level, hs, r, now) ==
    IF r.levelno >= level THEN CallHandlers(s, hs, r, now) ELSE s

(***************************************************************************)
(* gunicorn.glogging.Logger, the base class of GCPLogger.                  *)
(***************************************************************************)
Outputs == {None, "-"}

\* cfg.errorlog, cfg.accesslog and cfg.syslog of the gunicorn Config.
Cfgs ==
    [errorlog  : Outputs \cup {"error.log"},
     accesslog : Outputs \cup {"access.log"},
     syslog    : BOOLEAN]

RECURSIVE RemoveFirstTagged(_)
\* h = self._get_gunicorn_handler(log); if h: log.removeHandler(h)
RemoveFirstTagged(hs) ==
    IF hs = <<>> THEN <<>>
    ELSE IF Head(hs).gunicorn THEN Tail(hs)
    ELSE <<Head(hs)>> \o RemoveFirstTagged(Tail(hs))

\* Logger._set_handler(log, output, fmt, stream=None)
SetHandler(hs, output, fmt, stream) ==
    LET removed == RemoveFirstTagged(hs)
        target  == IF output = "-"
                   THEN (IF stream = None THEN "stderr" ELSE stream)
                   ELSE output
    IN  IF output = None THEN removed
        ELSE Append(removed, Handler(target, fmt, TRUE, NOTSET, 0))

\* Logger._set_syslog_handler(log, cfg, fmt, name)
SetSyslogHandler(hs) ==
    Append(hs, Handler("syslog", "syslog_fmt", TRUE, NOTSET, 0))

\* Logger.setup(cfg) of the base class: <<error handlers, access handlers>>.
BaseSetup(eh, ah, c) ==
    LET eh1 == SetHandler(eh, c.errorlog, "error_fmt", None)
        ah1 == IF c.accesslog # None
               THEN SetHandler(ah, c.accesslog, "access_fmt", "stdout")
               ELSE ah
    IN  IF c.syslog THEN <<SetSyslogHandler(eh1), SetSyslogHandler(ah1)>>
                    ELSE <<eh1, ah1>>

(***************************************************************************)
(* GCPLogger                                                               *)
(***************************************************************************)
\* GCPLogger.setup(cfg): <<error handlers, access handlers>>.
GCPSetup(eh, ah, c) ==
    LET base == BaseSetup(eh, ah, c)
    IN  <<SetHandler(base[1], c.errorlog, "json", None),
          SetHandler(base[2], c.accesslog, "json", None)>>

\* What the model passes to GCPLogger.access: resp and req are objects with
\* the attributes listed in attrs, environ is a dict with the keys listed in
\* keys (or, with isdict FALSE, an object without get), request_time is a timedelta, a number (or numeric string), or
\* something float() rejects.
GoodReq  == [attrs |-> {"method", "path", "version"},
             method |-> "GET", path |-> "/go", version |-> "1.1"]
BadReq   == [attrs |-> {"method"},
             method |-> "GET", path |-> "", version |-> ""]
GoodResp == [attrs |-> {"status_code"}, status_code |-> 200, response_length |-> ""]
SizedResp == [attrs |-> {"status_code", "response_length"},
              status_code |-> 404, response_length |-> "12"]
BadResp  == [attrs |-> {}, status_code |-> 0, response_length |-> ""]
FullEnv  == [isdict |-> TRUE, keys |-> {"REMOTE_ADDR", "HTTP_USER_AGENT"},
             REMOTE_ADDR |-> "10.0.0.1", HTTP_USER_AGENT |-> "curl"]
EmptyEnv == [isdict |-> TRUE, keys |-> {},
             REMOTE_ADDR |-> "", HTTP_USER_AGENT |-> ""]
BadEnv   == [isdict |-> FALSE, keys |-> {},
             REMOTE_ADDR |-> "", HTTP_USER_AGENT |-> ""]
Delta    == [kind |-> "timedelta", us |-> 1500]
Number   == [kind |-> "number", us |-> 2000000]
Junk     == [kind |-> "junk", us |-> 0]

Args(resp, req, environ, request_time) ==
    [resp |-> resp, req |-> req, environ |-> environ, request_time |-> request_time]

AccessArgs ==
    { Args(GoodResp, GoodReq, FullEnv, Delta),
      Args(SizedResp, GoodReq, EmptyEnv, Number),
      Args(GoodResp, BadReq, FullEnv, Delta),
      Args(BadResp, GoodReq, FullEnv, Delta),
      Args(GoodResp, GoodReq, FullEnv, Junk),
      Args(GoodResp, GoodReq, BadEnv, Delta),
      Args(BadResp, BadReq, BadEnv, Junk) }

\* environ.get(key, default)
EnvGet(environ, key, default) ==
    IF key \in environ.keys THEN environ[key] ELSE default

\* getattr(obj, name, default)
GetAttr(obj, name, default) ==
    IF name \in obj.attrs THEN obj[name] ELSE default

\* f'{latency_seconds:.6f}s': seconds and six decimals.
LatencyText(us) == Text(<<"s", us \div 1000000, us % 1000000>>)

\* Whether lines 83-98 raise: float(request_time) on a value that is no
\* number, environ.get on an object without get, or the read of an attribute
\* that req or resp lacks.
AccessRaises(a) ==
    \/ a.request_time.kind = "junk"
    \/ ~a.environ.isdict
    \/ ~({"method", "path", "version"} \subseteq a.req.attrs)
    \/ ~("status_code" \in a.resp.attrs)

\* The log_entry dict of GCPLogger.access.
AccessEntry(a, now) ==
    LET http == [k \in {"requestMethod", "requestUrl", "status", "userAgent",
                        "remoteIp", "latency"} |->
                    CASE k = "requestMethod" -> a.req.method
                      [] k = "requestUrl"    -> a.req.path
                      [] k = "status"        -> a.resp.status_code
                      [] k = "userAgent"     -> EnvGet(a.environ, "HTTP_USER_AGENT", "")
                      [] k = "remoteIp"      -> EnvGet(a.environ, "REMOTE_ADDR", "")
                      [] k = "latency"       -> LatencyText(a.request_time.us)]
    IN  [k \in {"severity", "message", "timestamp", "httpRequest"} |->
            CASE k = "severity"    -> "INFO"
              [] k = "message"     ->
                    Text(<<EnvGet(a.environ, "REMOTE_ADDR", "-"), a.req.method,
                           a.req.path, a.req.version, a.resp.status_code,
                           GetAttr(a.resp, "response_length", "-")>>)
              [] k = "timestamp"   -> now
              [] k = "httpRequest" -> http]

\* The mutant "return True".
is_access_log_enabled_Always(ah) == TRUE

\* GCPLogger.is_access_log_enabled: self.access_log and self.access_log.handlers
is_access_log_enabled(ah) == ah # <<>>

\* self.access_log.info(msg): the access logger is at level INFO.
AccessLogInfo(s, ah, msg, now) ==
    LoggerLog(s, INFO, ah, LogRecord("gunicorn.access", INFO, msg, "None", now), now)

\* The mutant that logs the message line before it builds httpRequest, so a
\* failing read leaves a partial record behind.
access_LogsFirst(s, ah, a, now) ==
    IF ~is_access_log_enabled(ah)
    THEN [sinks |-> s, result |-> "returned", logged |-> 0]
    ELSE IF AccessRaises(a)
    THEN [sinks |-> AccessLogInfo(s, ah, Text("partial"), now),
          result |-> "raised", logged |-> 1]
    ELSE [sinks |-> AccessLogInfo(s, ah, Dumps(AccessEntry(a, now)), now),
          result |-> "returned", logged |-> 1]

\* The mutant that logs only failed requests (status >= 400).
access_DropsOk(s, ah, a, now) ==
    IF ~is_access_log_enabled(ah)
    THEN [sinks |-> s, result |-> "returned", logged |-> 0]
    ELSE IF AccessRaises(a)
    THEN [sinks |-> s, result |-> "raised", logged |-> 0]
    ELSE IF a.resp.status_code < 400
    THEN [sinks |-> s, result |-> "returned", logged |-> 0]
    ELSE [sinks |-> AccessLogInfo(s, ah, Dumps(AccessEntry(a, now)), now),
          result |-> "returned", logged |-> 1]

\* GCPLogger.access(resp, req, environ, request_time): the sinks after the
\* call, whether it returned or raised, and how many records it handed to
\* the access logger.
access(s, ah, a, now) ==
    IF ~is_access_log_enabled(ah)
    THEN [sinks |-> s, result |-> "returned", logged |-> 0]
    ELSE IF AccessRaises(a)
    THEN [sinks |-> s, result |-> "raised", logged |-> 0]
    ELSE [sinks |-> AccessLogInfo(s, ah, Dumps(AccessEntry(a, now)), now),
          result |-> "returned", logged |-> 1]

(***************************************************************************)
(* The GCPLogger of one process: constructed once (Logger.__init__ calls   *)
(* setup on the fresh gunicorn.error and gunicorn.access loggers), then    *)
(* set up again, and called by the workers.                                *)
(***************************************************************************)
NoSinks == [st \in Streams |-> <<>>]

Threads == {"t1", "t2"}

\* The variables the root logger's operations own.
rootVars == <<root_handlers, root_level, pc, snap, nextId>>
\* The variables the formatter's operations own.
fmtVars == <<record, out>>
\* The variables the GCPLogger's operations own.
gcpVars == <<cfg, error_handlers, access_handlers>>

IdleRoot ==
    /\ root_handlers = <<>>
    /\ root_level = WARNING
    /\ pc = [t \in Threads |-> "idle"]
    /\ snap = [t \in Threads |-> <<>>]
    /\ nextId = 1

IdleFmt ==
    /\ record = LogRecord("root", INFO, Text("m"), "None", 0)
    /\ out = <<>>

InitGCP ==
    /\ cfg \in Cfgs
    /\ error_handlers = GCPSetup(<<>>, <<>>, cfg)[1]
    /\ access_handlers = GCPSetup(<<>>, <<>>, cfg)[2]
    /\ setups = 1
    /\ sinks = NoSinks
    /\ clock = 0
    /\ calls = <<>>
    /\ IdleRoot
    /\ IdleFmt

\* A later GCPLogger.setup(cfg) on the same loggers.
Setup ==
    /\ setups < MaxSetups
    /\ setups' = setups + 1
    /\ error_handlers' = GCPSetup(error_handlers, access_handlers, cfg)[1]
    /\ access_handlers' = GCPSetup(error_handlers, access_handlers, cfg)[2]
    /\ UNCHANGED <<cfg, sinks, clock, calls, fmtVars, rootVars>>

\* A worker's call of GCPLogger.access.
Access(a) ==
    /\ Len(calls) < MaxCalls
    /\ LET r == access(sinks, access_handlers, a, clock)
       IN  /\ sinks' = r.sinks
           /\ calls' = Append(calls,
                  [op |-> "access", id |-> clock, args |-> a,
                   enabled |-> access_handlers # <<>>,
                   nh |-> Len(access_handlers),
                   result |-> r.result, logged |-> r.logged])
    /\ clock' = clock + 1
    /\ UNCHANGED <<gcpVars, setups, fmtVars, rootVars>>

ErrorArgs ==
    [levelno : {DEBUG, ERROR}, msg : {Text("boom")}, exc_info : {"None", "raised"}]

\* Logger.debug/info/.../exception of the base class: self.error_log.log(...)
\* with the error logger at the default loglevel, INFO.
ErrorLog(a) ==
    /\ Len(calls) < MaxCalls
    /\ sinks' = LoggerLog(sinks, INFO, error_handlers,
                    LogRecord("gunicorn.error", a.levelno, a.msg, a.exc_info, clock),
                    clock)
    /\ calls' = Append(calls,
           [op |-> "error", id |-> clock, args |-> a, enabled |-> TRUE,
            nh |-> Len(error_handlers), result |-> "returned", logged |-> 1])
    /\ clock' = clock + 1
    /\ UNCHANGED <<gcpVars, setups, fmtVars, rootVars>>

NextGCP ==
    \/ Setup
    \/ \E a \in AccessArgs : Access(a)
    \/ \E a \in ErrorArgs : ErrorLog(a)

SpecGCP == InitGCP /\ [][NextGCP]_vars

(***************************************************************************)
(* Properties of the GCPLogger.                                            *)
(***************************************************************************)
\* Every place <<stream, index>> of a written line.
LinePositions(s) == UNION {{<<st, i>> : i \in DOMAIN s[st]} : st \in Streams}

LineAt(s, p) == s[p[1]][p[2]]

\* How many lines render record id of logger src.
LinesOf(s, src, id) ==
    Cardinality({p \in LinePositions(s) :
                    LineAt(s, p).src = src /\ LineAt(s, p).id = id})

\* An argument list the claims call malformed: req or resp lacks an
\* attribute access reads, environ is no dict, or request_time is no
\* timedelta and no number.
Malformed(a) ==
    a.req = BadReq \/ a.resp = BadResp \/ a.environ = BadEnv \/ a.request_time = Junk

\* The step is a call of GCPLogger.access.
AccessStep ==
    /\ Len(calls') = Len(calls) + 1
    /\ calls'[Len(calls')].op = "access"

HandlersUnchanged ==
    /\ error_handlers' = error_handlers
    /\ access_handlers' = access_handlers
    /\ root_handlers' = root_handlers

HttpRequestKeys ==
    {"requestMethod", "requestUrl", "status", "userAgent", "remoteIp", "latency"}

\* C4: without syslog, every line written for an access event is a JSON
\* object with top-level severity, message, timestamp and an httpRequest
\* object that carries method, path, status, latency, client IP and user
\* agent.
C4_AccessLineCarriesHttpRequest ==
    ~cfg.syslog =>
       \A p \in LinePositions(sinks) :
          LineAt(sinks, p).src = "gunicorn.access"
             => /\ IsJson(LineAt(sinks, p).text)
                /\ {"severity", "message", "timestamp", "httpRequest"}
                      \subseteq DOMAIN Loads(LineAt(sinks, p).text)
                /\ HttpRequestKeys
                      \subseteq DOMAIN Loads(LineAt(sinks, p).text)["httpRequest"]

\* C5: with errorlog = '-' and accesslog = '-' (and no syslog), error records
\* are written to stderr and access records to stdout, never to stderr.
C5_AccessToStdoutErrorToStderr ==
    (cfg.errorlog = "-" /\ cfg.accesslog = "-" /\ ~cfg.syslog) =>
       \A p \in LinePositions(sinks) :
          /\ LineAt(sinks, p).src = "gunicorn.error" => p[1] = "stderr"
          /\ LineAt(sinks, p).src = "gunicorn.access" => p[1] = "stdout"

IsStreamOrFileHandler(h) == h.gunicorn /\ h.stream # "syslog"

\* C7: a call of GCPLogger.access made while the access logger has no handler
\* returns normally whatever its arguments, hands no record to the logger,
\* writes nothing and leaves the handlers of every logger unchanged.
C7_DisabledAccessIsNoOp ==
    [][(AccessStep /\ access_handlers = <<>>)
          => /\ calls'[Len(calls')].result = "returned"
             /\ calls'[Len(calls')].logged = 0
             /\ sinks' = sinks
             /\ HandlersUnchanged]_vars

\* A malformed call while access logging is disabled returned normally.
C7_Witness ==
    \E i \in DOMAIN calls :
       /\ calls[i].op = "access" /\ ~calls[i].enabled
       /\ Malformed(calls[i].args)
       /\ calls[i].result = "returned"
       /\ sinks = NoSinks

\* C8: a call of GCPLogger.access made while the access logger has a handler
\* raises when its arguments are malformed, and then writes nothing and
\* leaves the handlers unchanged; a later well-formed call returns normally
\* and is written by every handler.
C8_FailurePassesThrough ==
    [][(AccessStep /\ access_handlers # <<>>)
          => LET c == calls'[Len(calls')]
             IN  /\ HandlersUnchanged
                 /\ Malformed(c.args) =>
                       c.result = "raised" /\ c.logged = 0 /\ sinks' = sinks
                 /\ ~Malformed(c.args) =>
                       /\ c.result = "returned"
                       /\ LinesOf(sinks', "gunicorn.access", c.id) = Len(access_handlers)]_vars

\* A malformed call raised while access logging is enabled, and a later call
\* was logged.
C8_Witness ==
    \E i, j \in DOMAIN calls :
       /\ i < j
       /\ calls[i].op = "access" /\ calls[i].enabled
       /\ Malformed(calls[i].args) /\ calls[i].result = "raised"
       /\ LinesOf(sinks, "gunicorn.access", calls[i].id) = 0
       /\ calls[j].op = "access" /\ calls[j].result = "returned"
       /\ LinesOf(sinks, "gunicorn.access", calls[j].id) >= 1

\* C9: after any number of setups, each of the two loggers has exactly one
\* stream or file handler installed by the server when its output is set
\* (none when it is None), and that handler uses the JSONFormatter.
C9_OneJsonHandlerPerLogger ==
    LET server(hs) == SelectSeq(hs, IsStreamOrFileHandler)
        ok(hs, output) ==
            IF output = None THEN server(hs) = <<>>
            ELSE Len(server(hs)) = 1 /\ server(hs)[1].fmt = "json"
    IN  ok(error_handlers, cfg.errorlog) /\ ok(access_handlers, cfg.accesslog)

(***************************************************************************)
(* JSONFormatter.format as a function of the record: every record of the   *)
(* bounded set is formatted.                                               *)
(***************************************************************************)
Records ==
    [name : {"root"}, levelno : 0..MaxLevel, msg : {Text("m")},
     exc_info : ExcInfos, id : {0}]

IdleGCP ==
    /\ cfg = [errorlog |-> None, accesslog |-> None, syslog |-> FALSE]
    /\ error_handlers = <<>>
    /\ access_handlers = <<>>

InitFormat ==
    /\ record \in Records
    /\ out = <<>>
    /\ sinks = NoSinks
    /\ clock = 0
    /\ setups = 0
    /\ calls = <<>>
    /\ IdleGCP
    /\ IdleRoot

\* A handler formats the record.
Format ==
    /\ out = <<>>
    /\ out' = <<format(record, clock)>>
    /\ UNCHANGED <<record, sinks, clock, setups, calls, gcpVars, rootVars>>

\* The next record arrives.
NextRecord ==
    /\ out # <<>>
    /\ clock < 1
    /\ record' \in Records
    /\ out' = <<>>
    /\ clock' = clock + 1
    /\ UNCHANGED <<sinks, setups, calls, gcpVars, rootVars>>

NextFormat == Format \/ NextRecord

SpecFormat == InitFormat /\ [][NextFormat]_vars

SeverityNames == {"DEBUG", "INFO", "WARNING", "ERROR", "CRITICAL"}

\* C1: the severity of a formatted record is the name of its level when the
\* level is DEBUG, INFO, WARNING, ERROR or CRITICAL and 'INFO' for every
\* other level; it is always one of the five names.
C1_SeverityByTable ==
    out # <<>> =>
       LET sev == Loads(out[1])["severity"]
           l   == record.levelno
       IN  /\ sev \in SeverityNames
           /\ sev = (CASE l = 10 -> "DEBUG"
                       [] l = 20 -> "INFO"
                       [] l = 30 -> "WARNING"
                       [] l = 40 -> "ERROR"
                       [] l = 50 -> "CRITICAL"
                       [] OTHER  -> "INFO")

\* A record at the custom level 25 was formatted with severity INFO.
C1_Witness ==
    /\ out # <<>>
    /\ record.levelno = 25
    /\ Loads(out[1])["severity"] = "INFO"

\* C2: the formatted object has the keys severity, message and timestamp,
\* the key exception exactly when record.exc_info is truthy, and no other.
C2_KeysOfFormattedRecord ==
    out # <<>> =>
       /\ IsJson(out[1])
       /\ DOMAIN Loads(out[1]) =
             {"severity", "message", "timestamp"}
                \cup (IF record.exc_info \in {"raised", "none3"}
                      THEN {"exception"} ELSE {})

\* A record with exc_info False was formatted without the exception key.
C2_Witness ==
    /\ out # <<>>
    /\ record.exc_info = "False"
    /\ DOMAIN Loads(out[1]) = {"severity", "message", "timestamp"}

(***************************************************************************)
(* configure_app_logging                                                   *)
(***************************************************************************)
\* The mutant "for handler in root_logger.handlers:": a loop over the live
\* list that removes as it goes visits every other handler.
HandlersCopy_LiveList(hs) ==
    [i \in 1..((Len(hs) + 1) \div 2) |-> hs[2 * i - 1]]

\* root_logger.handlers[:]
HandlersCopy(hs) == hs

\* Logger.removeHandler(hdlr): a handler the list does not hold is ignored.
removeHandler(hs, h) == SelectSeq(hs, LAMBDA x : x.id # h.id)

\* Logger.addHandler(hdlr)
addHandler(hs, h) ==
    IF \E i \in DOMAIN hs : hs[i].id = h.id THEN hs ELSE Append(hs, h)

\* logging.StreamHandler(sys.stdout) with level INFO and a JSONFormatter.
ConsoleHandler(id) == Handler("stdout", "json", FALSE, INFO, id)

RECURSIVE RemoveEach(_, _)
\* for handler in copy: root_logger.removeHandler(handler)
RemoveEach(hs, copy) ==
    IF copy = <<>> THEN hs
    ELSE RemoveEach(removeHandler(hs, Head(copy)), Tail(copy))

\* The mutant that leaves out the loop removing the existing handlers.
configure_app_logging_NoRemove(hs, id) == addHandler(hs, ConsoleHandler(id))

\* configure_app_logging() run without interruption: the root handlers after.
configure_app_logging(hs, id) ==
    addHandler(RemoveEach(hs, HandlersCopy(hs)), ConsoleHandler(id))

\* The handlers the root logger may hold before: logging.basicConfig's stderr
\* handler, and a file handler at ERROR.
PreKinds ==
    {[stream |-> "stderr", level |-> NOTSET], [stream |-> "error.log", level |-> ERROR]}

PreHandlers ==
    UNION {{[i \in 1..n |-> Handler(f[i].stream, "error_fmt", FALSE, f[i].level, i)] :
               f \in [1..n -> PreKinds]} : n \in 0..MaxPre}

RootArgs ==
    [levelno : {DEBUG, INFO, ERROR}, msg : {Text("m")}, exc_info : {"None", "raised"}]

InitApp ==
    /\ root_handlers \in PreHandlers
    /\ root_level \in {WARNING, DEBUG}
    /\ nextId = Len(root_handlers) + 1
    /\ pc = [t \in Threads |-> "idle"]
    /\ snap = [t \in Threads |-> <<>>]
    /\ sinks = NoSinks
    /\ clock = 0
    /\ setups = 0
    /\ calls = <<>>
    /\ IdleGCP
    /\ IdleFmt

\* One whole call of configure_app_logging().
ConfigureAppLogging ==
    /\ setups < MaxConfigures
    /\ setups' = setups + 1
    /\ root_level' = INFO
    /\ root_handlers' = configure_app_logging(root_handlers, nextId)
    /\ nextId' = nextId + 1
    /\ UNCHANGED <<pc, snap, sinks, clock, calls, gcpVars, fmtVars>>

\* The application logs through the root logger.
RootLog(a) ==
    /\ Len(calls) < MaxCalls
    /\ sinks' = LoggerLog(sinks, root_level, root_handlers,
                    LogRecord("root", a.levelno, a.msg, a.exc_info, clock), clock)
    /\ calls' = Append(calls,
           [op |-> "root", id |-> clock, args |-> a, configured |-> setups,
            nh |-> Len(root_handlers)])
    /\ clock' = clock + 1
    /\ UNCHANGED <<root_handlers, root_level, nextId, pc, snap, setups,
                   gcpVars, fmtVars>>

NextApp ==
    \/ ConfigureAppLogging
    \/ \E a \in RootArgs : RootLog(a)

SpecApp == InitApp /\ [][NextApp]_vars

IsConsoleHandler(h) == h.stream = "stdout" /\ h.fmt = "json" /\ h.level = INFO

\* C6: after one or more calls of configure_app_logging, whatever handlers
\* the root logger had, it has exactly one handler, which writes to stdout
\* with a JSONFormatter at level INFO, and its level is INFO, after the
\* second call as after the first; a record logged then at INFO or above is
\* written exactly once, to stdout, and a record below INFO is not written.
C6_OneConsoleHandler ==
    /\ setups >= 1 =>
          /\ Len(root_handlers) = 1
          /\ IsConsoleHandler(root_handlers[1])
          /\ root_level = INFO
    /\ \A i \in DOMAIN calls :
          (calls[i].op = "root" /\ calls[i].configured >= 1) =>
             /\ LinesOf(sinks, "root", calls[i].id) =
                   (IF calls[i].args.levelno >= 20 THEN 1 ELSE 0)
             /\ \A p \in LinePositions(sinks) :
                   LineAt(sinks, p).id = calls[i].id =>
                      p[1] = "stdout" /\ IsJson(LineAt(sinks, p).text)

\* configure_app_logging ran twice and a record at INFO was then written once.
C6_Witness ==
    /\ setups = 2
    /\ \E i \in DOMAIN calls :
          /\ calls[i].op = "root" /\ calls[i].configured = 2
          /\ calls[i].args.levelno = 20
          /\ LinesOf(sinks, "root", calls[i].id) = 1

(***************************************************************************)
(* Two threads in configure_app_logging: setLevel, the copy of the handler *)
(* list, each removeHandler and addHandler are separate steps.             *)
(***************************************************************************)
InitConc ==
    /\ root_handlers \in PreHandlers
    /\ root_level = WARNING
    /\ nextId = Len(root_handlers) + 1
    /\ pc = [t \in Threads |-> "call"]
    /\ snap = [t \in Threads |-> <<>>]
    /\ sinks = NoSinks
    /\ clock = 0
    /\ setups = 0
    /\ calls = <<>>
    /\ IdleGCP
    /\ IdleFmt

\* root_logger = logging.getLogger(); root_logger.setLevel(logging.INFO)
SetLevel(t) ==
    /\ pc[t] = "call"
    /\ root_level' = INFO
    /\ pc' = [pc EXCEPT ![t] = "copy"]
    /\ UNCHANGED <<root_handlers, nextId, snap, sinks, clock, setups, calls,
                   gcpVars, fmtVars>>

\* root_logger.handlers[:]
Copy(t) ==
    /\ pc[t] = "copy"
    /\ snap' = [snap EXCEPT ![t] = HandlersCopy(root_handlers)]
    /\ pc' = [pc EXCEPT ![t] = "loop"]
    /\ UNCHANGED <<root_handlers, root_level, nextId, sinks, clock, setups,
                   calls, gcpVars, fmtVars>>

\* root_logger.removeHandler(handler), for the next handler of the copy
Remove(t) ==
    /\ pc[t] = "loop"
    /\ snap[t] # <<>>
    /\ root_handlers' = removeHandler(root_handlers, Head(snap[t]))
    /\ snap' = [snap EXCEPT ![t] = Tail(@)]
    /\ UNCHANGED <<root_level, nextId, pc, sinks, clock, setups, calls,
                   gcpVars, fmtVars>>

\* The loop is over: the console handler is created and added, and the call
\* returns.
Add(t) ==
    /\ pc[t] = "loop"
    /\ snap[t] = <<>>
    /\ root_handlers' = addHandler(root_handlers, ConsoleHandler(nextId))
    /\ nextId' = nextId + 1
    /\ setups' = setups + 1
    /\ pc' = [pc EXCEPT ![t] = "done"]
    /\ UNCHANGED <<root_level, snap, sinks, clock, calls, gcpVars, fmtVars>>

BothReturned == \A t \in Threads : pc[t] = "done"

\* The application logs through the root logger once both calls returned.
LogAfter(a) ==
    /\ BothReturned
    /\ RootLog(a)

NextConc ==
    \/ \E t \in Threads : SetLevel(t)
    \/ \E t \in Threads : Copy(t)
    \/ \E t \in Threads : Remove(t)
    \/ \E t \in Threads : Add(t)
    \/ \E a \in RootArgs : LogAfter(a)

SpecConc == InitConc /\ [][NextConc]_vars

\* C10 as claimed: once both concurrent calls have returned, the root logger
\* has exactly one handler, and no record is written twice.
C10_OneHandlerAfterBoth ==
    BothReturned =>
       /\ Len(root_handlers) = 1
       /\ \A i \in DOMAIN calls : LinesOf(sinks, "root", calls[i].id) <= 1

\* C10 as amended: once both concurrent calls have returned, the root logger
\* has one or two handlers, each a console handler one of the two calls
\* added and none of those it had before, and its level is INFO; a record
\* logged then at INFO or above is written once by each of them.
C10_OneOrTwoHandlersAfterBoth ==
    BothReturned =>
       /\ Len(root_handlers) \in 1..Cardinality(Threads)
       /\ \A i \in DOMAIN root_handlers :
             /\ IsConsoleHandler(root_handlers[i])
             /\ root_handlers[i].id > nextId - 1 - Cardinality(Threads)
       /\ root_level = INFO
       /\ \A i \in DOMAIN calls :
             LinesOf(sinks, "root", calls[i].id) =
                (IF calls[i].args.levelno >= 20 THEN Len(root_handlers) ELSE 0)

\* Both calls returned, two handlers are left and a record was written twice.
C10_Witness ==
    /\ BothReturned
    /\ Len(root_handlers) = 2
    /\ \E i \in DOMAIN calls : LinesOf(sinks, "root", calls[i].id) = 2

====
